---------------------------- MODULE Spec2Model ----------------------------
(***************************************************************************)
(* A model of simple-pytorrent's socket channel (socketthread.py), of the  *)
(* peer handshake (peerwire.py) and of the coordinator loop (main.py).     *)
(*                                                                         *)
(* Spec      one SocketThread driven through its interface by an arbitrary *)
(*           owner: start(), the public methods, a SocketCommand put on    *)
(*           the command queue, get_reply(), join().                       *)
(* MainSpec  main(): one Peer per tracker entry, the polling loop, and the *)
(*           workers of the peers' channels.                               *)
(* LoopSpec  MainSpec with the three remote ends that make the replies to  *)
(*           the coordinator's receive differ.                             *)
(* FairSpec / MainFairSpec  the same with the scheduler's fairness: a      *)
(*           thread that can take a step eventually takes it.              *)
(* PeerSpec  one Peer and its channel driven by an arbitrary coordinator:  *)
(*           the methods of peer.socket, get_reply(block=False) and        *)
(*           Peer.receive_message().                                       *)
(* PrefixSpec  a channel whose owner connects and receives prefixed        *)
(*           messages of every prefix size the handler unpacks.            *)
(* HandshakeSpec  generate_handshake and decode_handshake called on their  *)
(*           own, on byte strings of 20 bytes and of other lengths.        *)
(* BitfieldSpec  the methods of one Bitfield called in any order.          *)
(*                                                                         *)
(* A SocketThread is a threading.Thread: run() executes only after its     *)
(* owner calls start().  Nothing under src/ calls start(); the action      *)
(* start(c) is the owner doing so, and a behaviour of main.py exactly as   *)
(* written is a behaviour of MainSpec in which start never happens.        *)
(***************************************************************************)
EXTENDS Integers, Sequences, FiniteSets, TLC

\* ------------------------------------------------------------- bounds
\* Number of peers the tracker returned (one channel per peer).
NPeers == 2
\* Commands the owner of a channel submits in Spec.
MaxCmds == 2
\* Largest byte count asked of receive() in Spec.
MaxReceive == 2
\* HandshakeSpec: info_hash and peer_id are 20 - MaxOff to 20 + MaxOff bytes
\* long, and start with a byte from 1 to MaxFill.
MaxOff == 1
MaxFill == 2
\* BitfieldSpec: a Bitfield is made from at most MaxRawLen bytes, and the
\* indexes added are 0 to MaxIndex.
MaxRawLen == 2
MaxIndex == 5

Chans == 1..NPeers
\* The channel the owner drives in Spec: the first one.
ClientChan == CHOOSE c \in Chans : \A d \in Chans : c <= d

\* ---------------------------------------------------------- constants
\* SocketCommand.* and SocketReply.*
CONNECT == "connect"
SEND == "send"
RECEIVE == "receive"
RECEIVE_WITH_PREFIX == "receive_with_prefix"
CLOSE == "close"
SUCCESS == "success"
ERROR == "error"
NONE == "None"

\* b"BitTorrent protocol"
pstr == <<66, 105, 116, 84, 111, 114, 114, 101, 110, 116, 32, 112, 114, 111,
          116, 111, 99, 111, 108>>
handshake_length_without_pstr == 49
pstrlen_byte_len == 1
LENGTH_PREFIX_SIZE == 4

\* ------------------------------------------------------------ helpers
RECURSIVE Repeat(_, _)
Repeat(b, n) == IF n <= 0 THEN <<>> ELSE <<b>> \o Repeat(b, n - 1)

Take(s, n) == SubSeq(s, 1, IF n < Len(s) THEN n ELSE Len(s))
Drop(s, n) == SubSeq(s, (IF n < Len(s) THEN n ELSE Len(s)) + 1, Len(s))

\* struct.pack: v as width big-endian bytes.
RECURSIVE pack(_, _)
pack(v, width) ==
    IF width = 0 THEN <<>>
    ELSE pack(v \div 256, width - 1) \o <<v % 256>>

\* struct.unpack(b"!B" / "!H" / "!I" / "!Q", ...): big-endian unsigned.
RECURSIVE unpack(_)
unpack(bs) ==
    IF bs = <<>> THEN 0
    ELSE 256 * unpack(SubSeq(bs, 1, Len(bs) - 1)) + bs[Len(bs)]

\* ----------------------------------------------------------- handshake
\* generate_handshake with the last two fields in the other order.
generate_handshake_peer_id_first(info_hash, peer_id) ==
    LET pstrlen == <<Len(pstr)>>
        reserved == Repeat(0, 8)
        handshake == pstrlen \o pstr \o reserved \o peer_id \o info_hash
    IN  IF Len(handshake) = 49 + Len(pstr) /\ pstrlen = <<19>>
        THEN [raised |-> NONE, value |-> handshake]
        ELSE [raised |-> "AssertionError", value |-> <<>>]

\* generate_handshake(info_hash, peer_id): pstrlen + pstr + reserved +
\* info_hash + peer_id, guarded by the two asserts.
generate_handshake(info_hash, peer_id) ==
    LET pstrlen == <<Len(pstr)>>
        reserved == Repeat(0, 8)
        handshake == pstrlen \o pstr \o reserved \o info_hash \o peer_id
    IN  IF Len(handshake) = 49 + Len(pstr) /\ pstrlen = <<19>>
        THEN [raised |-> NONE, value |-> handshake]
        ELSE [raised |-> "AssertionError", value |-> <<>>]

\* decode_handshake by slices, which stop at the end of the bytes instead of
\* raising.
decode_handshake_by_slices(h) ==
    IF Len(h) < 1
    THEN [raised |-> "IndexError", pstr |-> <<>>, pstrlen |-> 0,
          reserved |-> <<>>, info_hash |-> <<>>, peer_id |-> <<>>]
    ELSE [raised |-> NONE,
          pstrlen |-> h[1],
          pstr |-> Take(Drop(h, 1), h[1]),
          reserved |-> Take(Drop(h, 1 + h[1]), 8),
          info_hash |-> Take(Drop(h, 9 + h[1]), 20),
          peer_id |-> Take(Drop(h, 29 + h[1]), 20)]

\* decode_handshake(handshake): the bytes are popped one by one, pstrlen
\* first; a pop from the emptied list raises IndexError.  Bytes after the
\* peer_id are left unread.
decode_handshake(h) ==
    IF Len(h) < 1 \/ Len(h) < 1 + h[1] + 8 + 20 + 20
    THEN [raised |-> "IndexError", pstr |-> <<>>, pstrlen |-> 0,
          reserved |-> <<>>, info_hash |-> <<>>, peer_id |-> <<>>]
    ELSE [raised |-> NONE,
          pstrlen |-> h[1],
          pstr |-> SubSeq(h, 2, 1 + h[1]),
          reserved |-> SubSeq(h, 2 + h[1], 9 + h[1]),
          info_hash |-> SubSeq(h, 10 + h[1], 29 + h[1]),
          peer_id |-> SubSeq(h, 30 + h[1], 49 + h[1])]


\* calc_info_hash(meta_info): the 20-byte SHA-1 digest of this torrent.
InfoHash == Repeat(1, 20)
\* Another torrent's digest.
OtherInfoHash == Repeat(2, 20)
\* generate_peer_id(): b"-py0001-" and 12 letters or digits ("a" here).
PEER_ID == <<45, 112, 121, 48, 48, 48, 49, 45>> \o Repeat(97, 12)
\* A remote client's id.
RemotePeerId == <<45, 120, 120, 48, 48, 48, 49, 45>> \o Repeat(98, 12)

\* Torrent.handshake
LocalHandshake == generate_handshake(InfoHash, PEER_ID).value

\* ------------------------------------------------------------- Bitfield
\* bool(ord(byte) >> bit & 1)
Bit(byte, bit) == ((byte \div (2 ^ bit)) % 2) = 1

\* for bit in reversed(range(8)): append(...), from bit down to 0.
RECURSIVE BitsFrom(_, _)
BitsFrom(byte, bit) ==
    IF bit < 0 THEN <<>>
    ELSE <<Bit(byte, bit)>> \o BitsFrom(byte, bit - 1)

\* Bitfield.__init__ without reversed(): least significant bit first.
RECURSIVE Bitfield_lsb_first(_)
Bitfield_lsb_first(raw) ==
    IF raw = <<>> THEN <<>>
    ELSE [b \in 1..8 |-> Bit(Head(raw), b - 1)]
         \o Bitfield_lsb_first(Tail(raw))

\* Bitfield.__init__(bitfield): the list self.bitfield, eight entries a
\* byte.
RECURSIVE Bitfield(_)
Bitfield(raw) ==
    IF raw = <<>> THEN <<>>
    ELSE BitsFrom(Head(raw), 7) \o Bitfield(Tail(raw))

\* The position in a list of length len that Python's list[index] names
\* (1-based here), or 0 when list[index] raises IndexError.
Position(len, index) ==
    IF 0 <= index /\ index < len THEN index + 1
    ELSE IF index < 0 /\ -len <= index THEN len + index + 1
    ELSE 0

\* while len(self.bitfield) <= index: self.bitfield.append(False)
RECURSIVE Pad(_, _)
Pad(bf, index) ==
    IF Len(bf) <= index THEN Pad(Append(bf, FALSE), index) ELSE bf

\* add_index whose loop tests < instead of <=: one entry short.
add_index_short(bf, index) ==
    LET padded == Pad(bf, index - 1)
        at == Position(Len(padded), index)
    IN  IF at = 0
        THEN [raised |-> "IndexError", bitfield |-> padded]
        ELSE [raised |-> NONE, bitfield |-> [padded EXCEPT ![at] = TRUE]]

\* Bitfield.add_index(index) on the list bf: how it ends, and the list
\* afterwards.
add_index(bf, index) ==
    LET padded == Pad(bf, index)
        at == Position(Len(padded), index)
    IN  IF at = 0
        THEN [raised |-> "IndexError", bitfield |-> padded]
        ELSE [raised |-> NONE, bitfield |-> [padded EXCEPT ![at] = TRUE]]

\* Bitfield.has_index(index) on the list bf: how it ends, and what it
\* returns.
has_index(bf, index) ==
    IF Len(bf) >= index
    THEN IF Position(Len(bf), index) = 0
         THEN [raised |-> "IndexError", ret |-> FALSE]
         ELSE [raised |-> NONE, ret |-> bf[Position(Len(bf), index)]]
    ELSE [raised |-> NONE, ret |-> FALSE]

\* ------------------------------------------------------------ the state
VARIABLES
    started,        \* [c] Thread.start() was called: run() is executing or has ended
    alive,          \* [c] SocketThread.alive (Event)
    connected,      \* [c] SocketThread.connected (Event)
    socket,         \* [c] SocketThread.socket: "None", or the socket's state
    command_queue,  \* [c] SocketThread.command_queue
    reply_queue,    \* [c] SocketThread.reply_queue
    wpc,            \* [c] where run() is
    wcmd,           \* [c] the command run() is handling
    wexc,           \* [c] the exception that ended run(), or NONE
    remote,         \* [c] what the remote end sends on a new connection
    stream,         \* [c] what the remote end has yet to deliver on this one
    nsub,           \* [c] commands submitted so far (numbers them)
    documented,     \* [c] every submission so far was as the docstrings ask
    ndeq,           \* [c] commands run() has taken from the queue
    nrep,           \* [c] replies run() has put on the reply queue
    join_at,        \* [c] ndeq when join() cleared alive, or -1
    got,            \* [c] the replies get_reply() has returned
    mpc,            \* main(): where the coordinator is
    mi,             \* main(): index of the peer the for loop is at
    mexc,           \* main(): the exception that ended it, or NONE
    rh,             \* [p] how the last receive_handshake() ended, or NONE
    handshake,      \* [p] Peer.handshake
    peers_info_hash,\* [p] Peer.peers_info_hash
    has_shook_hands,\* [p] Peer.has_shook_hands
    sock_user,      \* [c] the thread that last operated on the OS socket, or NONE
    leaked,         \* [c] the open OS sockets that self.socket no longer names
    am_choking,     \* [p] Peer.am_choking
    am_interested,  \* [p] Peer.am_interested
    peer_choking,   \* [p] Peer.peer_choking
    peer_interested,\* [p] Peer.peer_interested
    bitfield,       \* [p] Peer.bitfield: the list of a Bitfield
    rm,             \* [p] how the last receive_message() ended, or NONE
    reply,          \* [p] what the last get_reply(block=False) returned
    bf_call,        \* the last call of a Bitfield method, and how it ended
    hs_args,        \* the info_hash and peer_id given to generate_handshake
    hs_wire,        \* what generate_handshake returned or raised
    hs_buf,         \* the bytes given to decode_handshake
    hs_decoded      \* what decode_handshake returned or raised

chanVars == <<started, alive, connected, socket, command_queue, reply_queue,
              wpc, wcmd, wexc, remote, stream, nsub, documented, ndeq,
              nrep, join_at, sock_user, leaked>>
mainVars == <<mpc, mi, mexc, rh, handshake, peers_info_hash, has_shook_hands>>
peerVars == <<am_choking, am_interested, peer_choking, peer_interested,
              bitfield, rm, reply>>
fnVars == <<bf_call, hs_args, hs_wire, hs_buf, hs_decoded>>
vars == <<chanVars, got, mainVars, peerVars, fnVars>>
chanVarsButReplies == <<started, alive, connected, socket, command_queue,
                        wpc, wcmd, wexc, remote, stream, nsub, documented,
                        ndeq, nrep, join_at, sock_user, leaked>>

\* SocketCommand(command, payload); the payload is the address, the data or
\* the count, by command.  id numbers the submissions of a channel and op is
\* the public method that made the command: neither is read by the worker.
SocketCommand(command, address, data, n, id, op) ==
    [command |-> command, address |-> address, data |-> data, n |-> n,
     id |-> id, op |-> op]
NoCommand == SocketCommand(NONE, NONE, <<>>, 0, 0, NONE)

\* SocketReply(status, payload); a Success payload is the bytes received
\* (with the prefix apart for receive_with_prefix), an Error payload is the
\* cause.  of is the id of the command the worker was handling.
SocketReply(status, payload, prefix, cause, of) ==
    [status |-> status, payload |-> payload, prefix |-> prefix,
     cause |-> cause, of |-> of]

\* What get_reply returns on queue.Empty: SocketReply(SocketReply.NONE, None).
NoReply == SocketReply(NONE, <<>>, <<>>, NONE, 0)
\* The coordinator's variable reply before any get_reply.
Unbound == SocketReply("unbound", <<>>, <<>>, NONE, 0)

\* A call of a Bitfield method: the method, its argument (the bytes or the
\* index), how it ended and what has_index returned.
BitfieldCall(fn, raw, index, raised, ret) ==
    [fn |-> fn, raw |-> raw, index |-> index, raised |-> raised, ret |-> ret]
NoCall == BitfieldCall(NONE, <<>>, 0, NONE, FALSE)

\* The remote end of a connection: the bytes it sends, and what follows them:
\* it closes the stream ("eof"), the connection fails ("error"), or nothing
\* more ever arrives ("stall").
Tails == {"eof", "error", "stall"}
Script(data, tail) == [data |-> data, tail |-> tail]

\* ------------------------------------------------------------ receive_all
\* receive_all with a single call of recv in place of the loop: what has
\* come is returned, however short.
receive_all_one_recv(sock, str, n) ==
    IF ~(0 < n)
    THEN [raised |-> NONE, data |-> <<>>, rest |-> str]
    ELSE IF sock \in {NONE, "SocketThread"}
    THEN [raised |-> "AttributeError", data |-> <<>>, rest |-> str]
    ELSE IF sock # "open"
    THEN [raised |-> "socket.error", data |-> <<>>, rest |-> str]
    ELSE IF str.data # <<>>
    THEN [raised |-> NONE, data |-> Take(str.data, n),
          rest |-> Script(Drop(str.data, n), str.tail)]
    ELSE IF str.tail = "eof"
    THEN [raised |-> NONE, data |-> <<>>, rest |-> Script(<<>>, "eof")]
    ELSE IF str.tail = "error"
    THEN [raised |-> "socket.error", data |-> <<>>,
          rest |-> Script(<<>>, "error")]
    ELSE [raised |-> "blocked", data |-> <<>>, rest |-> str]

\* receive_all(sock, n) on a socket in state sock whose remote end has yet to
\* deliver str.  raised: NONE, "socket.error", "AttributeError" (sock is
\* None, or is a SocketThread: neither has a recv), or "blocked" when recv
\* never returns; data: what is returned; rest: what is left of the stream.
receive_all(sock, str, n) ==
    IF ~(0 < n)
    THEN \* while len(data) < n: never entered, the socket is not touched
         [raised |-> NONE, data |-> <<>>, rest |-> str]
    ELSE IF sock \in {NONE, "SocketThread"}
    THEN [raised |-> "AttributeError", data |-> <<>>, rest |-> str]
    ELSE IF sock # "open"
    THEN \* recv on an unconnected or closed socket: ENOTCONN, EBADF
         [raised |-> "socket.error", data |-> <<>>, rest |-> str]
    ELSE IF Len(str.data) >= n
    THEN [raised |-> NONE, data |-> Take(str.data, n),
          rest |-> Script(Drop(str.data, n), str.tail)]
    ELSE IF str.tail = "eof"
    THEN \* recv returns b"": break, the short data is returned
         [raised |-> NONE, data |-> str.data, rest |-> Script(<<>>, "eof")]
    ELSE IF str.tail = "error"
    THEN [raised |-> "socket.error", data |-> <<>>,
          rest |-> Script(<<>>, "error")]
    ELSE [raised |-> "blocked", data |-> <<>>, rest |-> str]

\* --------------------------------------------------------------- run()
Put(q, x) == Append(q, x)

\* Thread unit has called a method of the OS socket of channel c (socket(),
\* connect, close, sendall, recv).
Operated(c, unit) == sock_user' = [sock_user EXCEPT ![c] = unit]

\* receive_all(sock, n) calls sock.recv: the loop is entered and sock is a
\* socket.
Receives(sock, n) == 0 < n /\ sock \notin {NONE, "SocketThread"}

\* The worker's handler ends by putting reply r.
Replied(c, r) ==
    /\ reply_queue' = [reply_queue EXCEPT ![c] = Put(@, r)]
    /\ nrep' = [nrep EXCEPT ![c] = @ + 1]
    /\ wpc' = [wpc EXCEPT ![c] = "top"]
    /\ wcmd' = [wcmd EXCEPT ![c] = NoCommand]
    /\ UNCHANGED wexc

\* An exception no handler catches leaves run(): the thread ends.
Raised(c, e) ==
    /\ wpc' = [wpc EXCEPT ![c] = "raised"]
    /\ wexc' = [wexc EXCEPT ![c] = e]
    /\ UNCHANGED <<reply_queue, nrep, wcmd>>

Success(c, payload, prefix) ==
    Replied(c, SocketReply(SUCCESS, payload, prefix, NONE, wcmd[c].id))
Error(c, cause) ==
    Replied(c, SocketReply(ERROR, <<>>, <<>>, cause, wcmd[c].id))

\* run_while with the test of alive left out: while True.
run_while_True(c) ==
    /\ wpc[c] = "top"
    /\ wpc' = [wpc EXCEPT ![c] = "get"]
    /\ UNCHANGED <<started, alive, connected, socket, command_queue,
                   reply_queue, wcmd, wexc, remote, stream, nsub, documented,
                   ndeq, nrep, join_at, sock_user, got, mainVars, peerVars,
                   fnVars,
                   leaked>>

\* while self.alive.isSet():
run_while(c) ==
    /\ wpc[c] = "top"
    /\ wpc' = [wpc EXCEPT ![c] = IF alive[c] THEN "get" ELSE "returned"]
    /\ UNCHANGED <<started, alive, connected, socket, command_queue,
                   reply_queue, wcmd, wexc, remote, stream, nsub, documented,
                   ndeq, nrep,
                   join_at, sock_user, got, mainVars, peerVars, fnVars,
                   leaked>>

\* cmd = self.command_queue.get(block=True, timeout=0.1): a command.
run_get(c) ==
    /\ wpc[c] = "get"
    /\ command_queue[c] # <<>>
    /\ wcmd' = [wcmd EXCEPT ![c] = Head(command_queue[c])]
    /\ command_queue' = [command_queue EXCEPT ![c] = Tail(@)]
    /\ ndeq' = [ndeq EXCEPT ![c] = @ + 1]
    /\ wpc' = [wpc EXCEPT ![c] = "handle"]
    /\ UNCHANGED <<started, alive, connected, socket, reply_queue, wexc,
                   remote, stream, nsub, documented, nrep, join_at, sock_user,
                   got, mainVars, peerVars, fnVars,
                   leaked>>

\* ... or queue.Empty after the timeout: continue.
run_Empty(c) ==
    /\ wpc[c] = "get"
    /\ command_queue[c] = <<>>
    /\ wpc' = [wpc EXCEPT ![c] = "top"]
    /\ UNCHANGED <<started, alive, connected, socket, command_queue,
                   reply_queue, wcmd, wexc, remote, stream, nsub, documented,
                   ndeq, nrep,
                   join_at, sock_user, got, mainVars, peerVars, fnVars,
                   leaked>>

\* self.socket = socket.socket(...) gives the name to the new socket and
\* closes nothing.  A socket the name held before, if it is not closed, is
\* closed when the interpreter collects it: at once where objects are
\* reference counted (collected), at no known time elsewhere.
Rebinds(c, collected) ==
    leaked' = [leaked EXCEPT ![c] =
                  IF socket[c] \in {"open", "fresh"} /\ ~collected
                  THEN @ + 1 ELSE @]

\* _handle_CONNECT(address).  socket.socket() succeeds or raises socket.error
\* (no descriptor left); connect() raises TypeError on an address that is no
\* tuple, and otherwise connects or raises socket.error.
_handle_CONNECT(c) ==
    /\ wpc[c] = "handle"
    /\ wcmd[c].command = CONNECT
    /\ \E created \in BOOLEAN, reached \in BOOLEAN, collected \in BOOLEAN :
          IF ~created
          THEN /\ Raised(c, "socket.error")
               /\ Operated(c, "worker")
               /\ UNCHANGED <<socket, connected, stream, leaked>>
          ELSE IF wcmd[c].address = NONE
          THEN /\ reached
               /\ socket' = [socket EXCEPT ![c] = "fresh"]
               /\ Rebinds(c, collected)
               /\ Raised(c, "TypeError")
               /\ Operated(c, "worker")
               /\ UNCHANGED <<connected, stream>>
          ELSE IF reached
          THEN /\ socket' = [socket EXCEPT ![c] = "open"]
               /\ Rebinds(c, collected)
               /\ stream' = [stream EXCEPT ![c] = remote[c]]
               /\ connected' = [connected EXCEPT ![c] = TRUE]
               /\ Success(c, <<>>, <<>>)
               /\ Operated(c, "worker")
          ELSE /\ socket' = [socket EXCEPT ![c] = "fresh"]
               /\ Rebinds(c, collected)
               /\ Error(c, "socket.error")
               /\ Operated(c, "worker")
               /\ UNCHANGED <<connected, stream>>
    /\ UNCHANGED <<started, alive, command_queue, remote, nsub, documented,
                   ndeq,
                   join_at, got, mainVars, peerVars, fnVars>>

\* _handle_CLOSE()
_handle_CLOSE(c) ==
    /\ wpc[c] = "handle"
    /\ wcmd[c].command = CLOSE
    /\ IF socket[c] = NONE
       THEN /\ Raised(c, "AttributeError")
            /\ UNCHANGED <<socket, connected, sock_user,
                   leaked>>
       ELSE /\ socket' = [socket EXCEPT ![c] = "closed"]
            /\ connected' = [connected EXCEPT ![c] = FALSE]
            /\ Success(c, <<>>, <<>>)
            /\ Operated(c, "worker")
    /\ UNCHANGED <<started, alive, command_queue, remote, stream, nsub,
                   documented, ndeq, join_at, got, mainVars, peerVars, fnVars,
                   leaked>>

\* _handle_SEND(payload): sendall() sends, or raises socket.error.
_handle_SEND(c) ==
    /\ wpc[c] = "handle"
    /\ wcmd[c].command = SEND
    /\ IF socket[c] = NONE
       THEN /\ Raised(c, "AttributeError")
            /\ UNCHANGED sock_user
       ELSE /\ Operated(c, "worker")
            /\ IF socket[c] # "open"
               THEN Error(c, "socket.error")
               ELSE \E sent \in BOOLEAN :
                       IF sent THEN Success(c, <<>>, <<>>)
                       ELSE Error(c, "socket.error")
    /\ UNCHANGED <<started, alive, connected, socket, command_queue, remote,
                   stream, nsub, documented, ndeq, join_at, got, mainVars,
                   peerVars, fnVars,
                   leaked>>

\* _handle_RECEIVE(n)
_handle_RECEIVE(c) ==
    /\ wpc[c] = "handle"
    /\ wcmd[c].command = RECEIVE
    /\ LET r == receive_all(socket[c], stream[c], wcmd[c].n)
       IN  /\ r.raised # "blocked"
           /\ stream' = [stream EXCEPT ![c] = r.rest]
           /\ IF r.raised = "AttributeError"
              THEN Raised(c, "AttributeError")
              ELSE IF r.raised = "socket.error"
              THEN Error(c, "socket.error")
              ELSE Success(c, r.data, <<>>)
           /\ IF Receives(socket[c], wcmd[c].n)
              THEN Operated(c, "worker")
              ELSE UNCHANGED sock_user
    /\ UNCHANGED <<started, alive, connected, socket, command_queue, remote,
                   nsub, documented, ndeq, join_at, got, mainVars, peerVars,
                   fnVars,
                   leaked>>

\* _handle_RECEIVE_WITH_PREFIX without the two tests of length: whatever was
\* received is a Success.
receive_with_prefix_unchecked(sock, str, prefix_size) ==
    LET p == receive_all(sock, str, prefix_size)
        b == receive_all(sock, p.rest, unpack(p.data))
    IN  IF p.raised # NONE \/ b.raised # NONE
        THEN [raised |-> IF "blocked" \in {p.raised, b.raised}
                         THEN "blocked" ELSE NONE,
              status |-> ERROR, cause |-> "socket.error",
              prefix |-> <<>>, data |-> <<>>, rest |-> b.rest]
        ELSE [raised |-> NONE, status |-> SUCCESS, cause |-> NONE,
              prefix |-> p.data, data |-> b.data, rest |-> b.rest]

\* _handle_RECEIVE_WITH_PREFIX(prefix_size): the outcome, as a record.
\* raised: NONE when a reply is put, else the exception leaving the handler
\* ("blocked": a recv never returns).
receive_with_prefix_outcome(sock, str, prefix_size) ==
    LET p == receive_all(sock, str, prefix_size)
        prematurely == [raised |-> NONE, status |-> ERROR,
                        cause |-> "Socket closed prematurely",
                        prefix |-> <<>>, data |-> <<>>, rest |-> p.rest]
    IN  IF p.raised = "socket.error"
        THEN [raised |-> NONE, status |-> ERROR, cause |-> "socket.error",
              prefix |-> <<>>, data |-> <<>>, rest |-> p.rest]
        ELSE IF p.raised # NONE
        THEN [raised |-> p.raised, status |-> NONE, cause |-> NONE,
              prefix |-> <<>>, data |-> <<>>, rest |-> p.rest]
        ELSE IF Len(p.data) # prefix_size
        THEN prematurely
        ELSE IF prefix_size \notin {1, 2, 4, 8}
        THEN [raised |-> "TypeError", status |-> NONE, cause |-> NONE,
              prefix |-> <<>>, data |-> <<>>, rest |-> p.rest]
        ELSE LET message_length == unpack(p.data)
                 b == IF message_length = 0
                      THEN [raised |-> NONE, data |-> <<>>, rest |-> p.rest]
                      ELSE receive_all(sock, p.rest, message_length)
             IN  IF b.raised = "socket.error"
                 THEN [raised |-> NONE, status |-> ERROR,
                       cause |-> "socket.error", prefix |-> <<>>,
                       data |-> <<>>, rest |-> b.rest]
                 ELSE IF b.raised # NONE
                 THEN [raised |-> b.raised, status |-> NONE, cause |-> NONE,
                       prefix |-> <<>>, data |-> <<>>, rest |-> b.rest]
                 ELSE IF Len(b.data) = message_length
                 THEN [raised |-> NONE, status |-> SUCCESS, cause |-> NONE,
                       prefix |-> p.data, data |-> b.data, rest |-> b.rest]
                 ELSE [prematurely EXCEPT !.rest = b.rest]

_handle_RECEIVE_WITH_PREFIX(c) ==
    /\ wpc[c] = "handle"
    /\ wcmd[c].command = RECEIVE_WITH_PREFIX
    /\ LET r == receive_with_prefix_outcome(socket[c], stream[c], wcmd[c].n)
       IN  /\ r.raised # "blocked"
           /\ stream' = [stream EXCEPT ![c] = r.rest]
           /\ IF r.raised # NONE
              THEN Raised(c, r.raised)
              ELSE IF r.status = SUCCESS
              THEN Success(c, r.data, r.prefix)
              ELSE Error(c, r.cause)
           /\ IF Receives(socket[c], wcmd[c].n)
              THEN Operated(c, "worker")
              ELSE UNCHANGED sock_user
    /\ UNCHANGED <<started, alive, connected, socket, command_queue, remote,
                   nsub, documented, ndeq, join_at, got, mainVars, peerVars,
                   fnVars,
                   leaked>>

\* One step of the worker of channel c.
Worker(c) ==
    \/ run_while(c)
    \/ run_get(c)
    \/ run_Empty(c)
    \/ _handle_CONNECT(c)
    \/ _handle_CLOSE(c)
    \/ _handle_SEND(c)
    \/ _handle_RECEIVE(c)
    \/ _handle_RECEIVE_WITH_PREFIX(c)

\* ------------------------------------------------- the owner of a channel
\* What the docstrings ask of the owner: commands come from the public
\* methods, the first one connects ("Requires an open and valid socket"), and
\* a prefix size is 1, 2, 4 or 8.
AsDocumented(before, command, n, op) ==
    /\ op # "put"
    /\ before = 0 => op = "connect"
    /\ command = RECEIVE_WITH_PREFIX => n \in {1, 2, 4, 8}

\* self.command_queue.put(SocketCommand(...)), the body of every public
\* method that submits a command.
Submit(c, command, address, data, n, op) ==
    /\ documented' = [documented EXCEPT ![c] =
          @ /\ AsDocumented(nsub[c], command, n, op)]
    /\ nsub' = [nsub EXCEPT ![c] = @ + 1]
    /\ command_queue' = [command_queue EXCEPT ![c] =
          Put(@, SocketCommand(command, address, data, n, nsub[c] + 1, op))]

\* Thread.start(): run() begins.
start(c) ==
    /\ ~started[c]
    /\ started' = [started EXCEPT ![c] = TRUE]
    /\ wpc' = [wpc EXCEPT ![c] = "top"]
    /\ UNCHANGED <<alive, connected, socket, command_queue, reply_queue, wcmd,
                   wexc, remote, stream, nsub, documented, ndeq, nrep,
                   join_at, sock_user, got,
                   mainVars, peerVars, fnVars,
                   leaked>>

\* SocketThread.connect(address)
connect(c, address) ==
    /\ Submit(c, CONNECT, address, <<>>, 0, "connect")
    /\ UNCHANGED <<started, alive, connected, socket, reply_queue, wpc, wcmd,
                   wexc, remote, stream, ndeq, nrep, join_at, sock_user, got,
                   mainVars, peerVars, fnVars,
                   leaked>>

\* SocketThread.close(): puts SocketCommand(SocketCommand.CONNECT), whose
\* payload defaults to None.
close(c) ==
    /\ Submit(c, CONNECT, NONE, <<>>, 0, "close")
    /\ UNCHANGED <<started, alive, connected, socket, reply_queue, wpc, wcmd,
                   wexc, remote, stream, ndeq, nrep, join_at, sock_user, got,
                   mainVars, peerVars, fnVars,
                   leaked>>

\* SocketThread.send(payload)
send(c, payload) ==
    /\ Submit(c, SEND, NONE, payload, 0, "send")
    /\ UNCHANGED <<started, alive, connected, socket, reply_queue, wpc, wcmd,
                   wexc, remote, stream, ndeq, nrep, join_at, sock_user, got,
                   mainVars, peerVars, fnVars,
                   leaked>>

\* SocketThread.receive(n)
receive(c, n) ==
    /\ Submit(c, RECEIVE, NONE, <<>>, n, "receive")
    /\ UNCHANGED <<started, alive, connected, socket, reply_queue, wpc, wcmd,
                   wexc, remote, stream, ndeq, nrep, join_at, sock_user, got,
                   mainVars, peerVars, fnVars,
                   leaked>>

\* SocketThread.receive_with_prefix(prefix_size)
receive_with_prefix(c, prefix_size) ==
    /\ Submit(c, RECEIVE_WITH_PREFIX, NONE, <<>>, prefix_size,
              "receive_with_prefix")
    /\ UNCHANGED <<started, alive, connected, socket, reply_queue, wpc, wcmd,
                   wexc, remote, stream, ndeq, nrep, join_at, sock_user, got,
                   mainVars, peerVars, fnVars,
                   leaked>>

\* command_queue.put(SocketCommand(SocketCommand.CLOSE)): the command the
\* SocketCommand docstring lists and no public method makes.
put_CLOSE(c) ==
    /\ Submit(c, CLOSE, NONE, <<>>, 0, "put")
    /\ UNCHANGED <<started, alive, connected, socket, reply_queue, wpc, wcmd,
                   wexc, remote, stream, ndeq, nrep, join_at, sock_user, got,
                   mainVars, peerVars, fnVars,
                   leaked>>

\* SocketThread.get_reply(): a reply is there and is returned.
get_reply(c) ==
    /\ reply_queue[c] # <<>>
    /\ got' = [got EXCEPT ![c] = Append(@, Head(reply_queue[c]))]
    /\ reply_queue' = [reply_queue EXCEPT ![c] = Tail(@)]
    /\ UNCHANGED <<chanVarsButReplies, mainVars, peerVars, fnVars>>

\* SocketThread.is_connected(): self.connected.isSet().
is_connected(c) == connected[c]

\* SocketThread.join(): self.alive.clear().
join(c) ==
    /\ alive[c]
    /\ alive' = [alive EXCEPT ![c] = FALSE]
    /\ join_at' = [join_at EXCEPT ![c] = ndeq[c]]
    /\ UNCHANGED <<started, connected, socket, command_queue, reply_queue,
                   wpc, wcmd, wexc, remote, stream, nsub, documented, ndeq,
                   nrep,
                   sock_user, got,
                   mainVars, peerVars, fnVars,
                   leaked>>

\* The address of the remote end, (host, port).
Address == "peer"
\* The bytes the owner sends.
SendData == <<1>>
\* The prefix sizes the owner asks for: two the handler accepts and one it
\* does not.
PrefixSizes == {1, 2, 3}
\* What the remote end may send on a connection of the channel.
ClientScripts ==
    {Script(d, t) : d \in {<<>>, <<0>>, <<2, 7>>, <<0, 1, 7>>}, t \in Tails}

\* The owner submits at most MaxCmds commands.
MaySubmit(c) == nsub[c] < MaxCmds

Owner(c) ==
    \/ start(c)
    \/ MaySubmit(c) /\ connect(c, Address)
    \/ MaySubmit(c) /\ close(c)
    \/ MaySubmit(c) /\ send(c, SendData)
    \/ MaySubmit(c) /\ \E n \in 0..MaxReceive : receive(c, n)
    \/ MaySubmit(c) /\ \E w \in PrefixSizes : receive_with_prefix(c, w)
    \/ MaySubmit(c) /\ put_CLOSE(c)
    \/ get_reply(c)
    \/ join(c)

\* SocketThread.__init__, for every channel; main() has not run.
InitChannels ==
    /\ started = [c \in Chans |-> FALSE]
    /\ alive = [c \in Chans |-> TRUE]
    /\ connected = [c \in Chans |-> FALSE]
    /\ socket = [c \in Chans |-> NONE]
    /\ command_queue = [c \in Chans |-> <<>>]
    /\ reply_queue = [c \in Chans |-> <<>>]
    /\ wpc = [c \in Chans |-> "unstarted"]
    /\ wcmd = [c \in Chans |-> NoCommand]
    /\ wexc = [c \in Chans |-> NONE]
    /\ stream = [c \in Chans |-> Script(<<>>, "eof")]
    /\ nsub = [c \in Chans |-> 0]
    /\ documented = [c \in Chans |-> TRUE]
    /\ ndeq = [c \in Chans |-> 0]
    /\ nrep = [c \in Chans |-> 0]
    /\ join_at = [c \in Chans |-> -1]
    /\ sock_user = [c \in Chans |-> NONE]
    /\ leaked = [c \in Chans |-> 0]
    /\ got = [c \in Chans |-> <<>>]

\* Peer.__init__, for every peer.
InitPeers ==
    /\ mi = 1
    /\ mexc = NONE
    /\ rh = [p \in Chans |-> NONE]
    /\ handshake = [p \in Chans |-> NONE]
    /\ peers_info_hash = [p \in Chans |-> NONE]
    /\ has_shook_hands = [p \in Chans |-> FALSE]
    /\ am_choking = [p \in Chans |-> TRUE]
    /\ am_interested = [p \in Chans |-> FALSE]
    /\ peer_choking = [p \in Chans |-> TRUE]
    /\ peer_interested = [p \in Chans |-> FALSE]
    /\ bitfield = [p \in Chans |-> Bitfield(<<>>)]
    /\ rm = [p \in Chans |-> NONE]
    /\ reply = [p \in Chans |-> Unbound]

\* No function of peerwire.py has been called on its own.
InitCalls ==
    /\ bf_call = NoCall
    /\ hs_args = [info_hash |-> <<>>, peer_id |-> <<>>]
    /\ hs_wire = [called |-> FALSE, raised |-> NONE, value |-> <<>>]
    /\ hs_buf = <<>>
    /\ hs_decoded = [called |-> FALSE, result |-> decode_handshake(<<>>)]

Init ==
    /\ InitChannels
    /\ InitPeers
    /\ InitCalls
    /\ mpc = "off"
    /\ \E s \in ClientScripts :
          remote = [c \in Chans |-> IF c = ClientChan THEN s
                                    ELSE Script(<<>>, "eof")]

Next ==
    \/ Owner(ClientChan)
    \/ Worker(ClientChan)

Spec == Init /\ [][Next]_vars

\* ------------------------------------------------------------- main()
\* The for loop over torrent.peers, whose body starts at loop, moves to the
\* next peer, or ends: the while loop comes next, and sleeps.
NextPeer(loop) ==
    IF mi < NPeers
    THEN /\ mi' = mi + 1
         /\ mpc' = loop
    ELSE /\ mi' = 1
         /\ mpc' = "sleep"

\* for peer in torrent.peers: peer.connect()        (Peer.connect)
main_connect ==
    /\ mpc = "connect"
    /\ Submit(mi, CONNECT, Address, <<>>, 0, "connect")
    /\ NextPeer("connect")
    /\ UNCHANGED <<started, alive, connected, socket, reply_queue, wpc, wcmd,
                   wexc, remote, stream, ndeq, nrep, join_at, sock_user, got,
                   mexc, rh,
                   handshake, peers_info_hash, has_shook_hands, peerVars, fnVars,
                   leaked>>

\* while 1: time.sleep(1), and the for loop starts over.
main_sleep ==
    /\ mpc = "sleep"
    /\ mpc' = "poll"
    /\ mi' = 1
    /\ UNCHANGED <<chanVars, got, mexc, rh, handshake, peers_info_hash,
                   has_shook_hands, peerVars, fnVars>>

\* main_poll with a get_reply that leaves the reply it returns on the queue.
main_poll_peek ==
    /\ mpc = "poll"
    /\ reply' = [reply EXCEPT ![mi] =
          IF reply_queue[mi] = <<>> THEN NoReply ELSE Head(reply_queue[mi])]
    /\ IF reply_queue[mi] = <<>>
       THEN /\ NextPeer("poll")
            /\ UNCHANGED <<command_queue, nsub, documented>>
       ELSE IF Head(reply_queue[mi]).status = SUCCESS
            THEN /\ Submit(mi, SEND, NONE, LocalHandshake, 0, "send")
                 /\ mpc' = "send_reply"
                 /\ UNCHANGED mi
            ELSE /\ NextPeer("poll")
                 /\ UNCHANGED <<command_queue, nsub, documented>>
    /\ UNCHANGED <<started, alive, connected, socket, reply_queue, wpc, wcmd,
                   wexc, remote, stream, ndeq, nrep, join_at, sock_user,
                   leaked, got, mexc, rh, handshake, peers_info_hash,
                   has_shook_hands, am_choking, am_interested, peer_choking,
                   peer_interested, bitfield, rm, fnVars>>

\* main_poll without the test of reply.status: the handshake is sent on any
\* reply there is.
main_poll_any_reply ==
    /\ mpc = "poll"
    /\ reply' = [reply EXCEPT ![mi] =
          IF reply_queue[mi] = <<>> THEN NoReply ELSE Head(reply_queue[mi])]
    /\ IF reply_queue[mi] = <<>>
       THEN /\ NextPeer("poll")
            /\ UNCHANGED <<reply_queue, command_queue, nsub, documented>>
       ELSE /\ reply_queue' = [reply_queue EXCEPT ![mi] = Tail(@)]
            /\ Submit(mi, SEND, NONE, LocalHandshake, 0, "send")
            /\ mpc' = "send_reply"
            /\ UNCHANGED mi
    /\ UNCHANGED <<started, alive, connected, socket, wpc, wcmd, wexc, remote,
                   stream, ndeq, nrep, join_at, sock_user, got, mexc, rh,
                   handshake, peers_info_hash, has_shook_hands, am_choking,
                   am_interested, peer_choking, peer_interested, bitfield,
                   rm, fnVars,
                   leaked>>

\* reply = peer.socket.get_reply(block=False) and what follows it, up to the
\* next blocking call.  get_reply returns SocketReply(NONE) on an empty queue,
\* never None: that reply is neither ERROR nor SUCCESS and is only printed.
\* On SUCCESS: peer.send_handshake(torrent.handshake), then the blocking
\* get_reply of line 47.
main_poll ==
    /\ mpc = "poll"
    /\ reply' = [reply EXCEPT ![mi] =
          IF reply_queue[mi] = <<>> THEN NoReply ELSE Head(reply_queue[mi])]
    /\ IF reply_queue[mi] = <<>>
       THEN /\ NextPeer("poll")
            /\ UNCHANGED <<reply_queue, command_queue, nsub, documented>>
       ELSE /\ reply_queue' = [reply_queue EXCEPT ![mi] = Tail(@)]
            /\ IF Head(reply_queue[mi]).status = SUCCESS
               THEN /\ Submit(mi, SEND, NONE, LocalHandshake, 0, "send")
                    /\ mpc' = "send_reply"
                    /\ UNCHANGED mi
               ELSE /\ NextPeer("poll")
                    /\ UNCHANGED <<command_queue, nsub, documented>>
    /\ UNCHANGED <<started, alive, connected, socket, wpc, wcmd, wexc, remote,
                   stream, ndeq, nrep, join_at, sock_user, got, mexc, rh,
                   handshake, peers_info_hash, has_shook_hands, am_choking,
                   am_interested, peer_choking, peer_interested, bitfield,
                   rm, fnVars,
                   leaked>>

\* if peer.socket.get_reply(block=True).status == "success": the reply has
\* come.  On success peer.receive_handshake() begins: self.socket.receive(1),
\* then its blocking get_reply.
main_send_reply ==
    /\ mpc = "send_reply"
    /\ reply_queue[mi] # <<>>
    /\ reply_queue' = [reply_queue EXCEPT ![mi] = Tail(@)]
    /\ IF Head(reply_queue[mi]).status = SUCCESS
       THEN /\ Submit(mi, RECEIVE, NONE, <<>>, pstrlen_byte_len, "receive")
            /\ mpc' = "receive_handshake"
            /\ UNCHANGED mi
       ELSE /\ NextPeer("poll")
            /\ UNCHANGED <<command_queue, nsub, documented>>
    /\ UNCHANGED <<started, alive, connected, socket, wpc, wcmd, wexc, remote,
                   stream, ndeq, nrep, join_at, sock_user, got, mexc, rh,
                   handshake,
                   peers_info_hash, has_shook_hands, peerVars, fnVars,
                   leaked>>

\* pstrlen + handshake_length_without_pstr - pstrlen_byte_len, where pstrlen
\* is reply.payload: the byte string recv returned.  A str plus an int raises
\* TypeError, whatever the bytes.
remaining_length(payload) ==
    [raised |-> "TypeError",
     value |-> handshake_length_without_pstr - pstrlen_byte_len]

\* Peer.receive_handshake(), from the reply to its first receive on.  A reply
\* that is not SUCCESS raises HandshakeException, which main() catches and
\* prints; the TypeError of the second receive's argument is not caught and
\* ends main().
receive_handshake ==
    /\ mpc = "receive_handshake"
    /\ reply_queue[mi] # <<>>
    /\ reply_queue' = [reply_queue EXCEPT ![mi] = Tail(@)]
    /\ IF Head(reply_queue[mi]).status # SUCCESS
       THEN /\ rh' = [rh EXCEPT ![mi] = "HandshakeException"]
            /\ NextPeer("poll")
            /\ UNCHANGED mexc
       ELSE /\ rh' = [rh EXCEPT ![mi] =
                         remaining_length(Head(reply_queue[mi]).payload).raised]
            /\ mexc' = remaining_length(Head(reply_queue[mi]).payload).raised
            /\ mpc' = "raised"
            /\ UNCHANGED mi
    /\ UNCHANGED <<started, alive, connected, socket, command_queue, wpc, wcmd,
                   wexc, remote, stream, nsub, documented, ndeq, nrep,
                   join_at, sock_user, got,
                   handshake, peers_info_hash, has_shook_hands, peerVars, fnVars,
                   leaked>>

Main ==
    \/ main_connect
    \/ main_sleep
    \/ main_poll
    \/ main_send_reply
    \/ receive_handshake

\* What a remote peer may send once connected: a handshake for this torrent,
\* one for another torrent, part of one, or nothing.
ValidHandshake == generate_handshake(InfoHash, RemotePeerId).value
ForeignHandshake == generate_handshake(OtherInfoHash, RemotePeerId).value
PeerScripts ==
    {Script(ValidHandshake, "stall"), Script(ForeignHandshake, "stall"),
     Script(Take(ValidHandshake, 10), "eof")}
    \cup {Script(<<>>, t) : t \in Tails}

\* main() after torrent.get_peers(): the peers exist, none is connected.
MainInit ==
    /\ InitChannels
    /\ InitPeers
    /\ InitCalls
    /\ mpc = "connect"
    /\ remote \in [Chans -> PeerScripts]

\* The worker of a peer's channel: main() submits connect, send and receive.
PeerWorker(p) ==
    \/ run_while(p)
    \/ run_get(p)
    \/ run_Empty(p)
    \/ _handle_CONNECT(p)
    \/ _handle_SEND(p)
    \/ _handle_RECEIVE(p)

MainNext ==
    \/ Main
    \/ \E p \in Chans : start(p)
    \/ \E p \in Chans : PeerWorker(p)

MainSpec == MainInit /\ [][MainNext]_vars

\* main() with the remote ends that make the replies to its receive differ:
\* one sends a handshake, one closes the stream, one fails.
LoopScripts ==
    {Script(ValidHandshake, "stall"), Script(<<>>, "eof"),
     Script(<<>>, "error")}

LoopInit ==
    /\ InitChannels
    /\ InitPeers
    /\ InitCalls
    /\ mpc = "connect"
    /\ remote \in [Chans -> LoopScripts]

LoopSpec == LoopInit /\ [][MainNext]_vars

\* The scheduler runs every thread that can take a step.  Nothing makes the
\* owner call a method, and nothing under src/ calls start().
FairSpec == Spec /\ WF_vars(Worker(ClientChan))

MainFairSpec ==
    MainSpec /\ WF_vars(Main) /\ \A p \in Chans : WF_vars(PeerWorker(p))


\* ------------------------------------------------- a Peer and its channel
\* get_reply(block=False) on a queue that hands out its newest item.
get_reply_newest(c) ==
    /\ IF reply_queue[c] = <<>>
       THEN /\ reply' = [reply EXCEPT ![c] = NoReply]
            /\ UNCHANGED reply_queue
       ELSE /\ reply' = [reply EXCEPT ![c] =
                   reply_queue[c][Len(reply_queue[c])]]
            /\ reply_queue' = [reply_queue EXCEPT ![c] =
                   SubSeq(@, 1, Len(@) - 1)]
    /\ UNCHANGED <<chanVarsButReplies, got, mainVars, am_choking,
                   am_interested, peer_choking, peer_interested, bitfield,
                   rm, fnVars>>

\* reply = peer.socket.get_reply(block=False): the oldest reply, or NoReply on
\* queue.Empty.
get_reply_block_False(c) ==
    /\ IF reply_queue[c] = <<>>
       THEN /\ reply' = [reply EXCEPT ![c] = NoReply]
            /\ UNCHANGED reply_queue
       ELSE /\ reply' = [reply EXCEPT ![c] = Head(reply_queue[c])]
            /\ reply_queue' = [reply_queue EXCEPT ![c] = Tail(@)]
    /\ UNCHANGED <<chanVarsButReplies, got, mainVars, am_choking,
                   am_interested, peer_choking, peer_interested, bitfield,
                   rm, fnVars>>

\* receive_message() from line 211 on: the message has been read.
\* int(payload.encode('hex'), 16) is the big-endian value of the payload, and
\* raises ValueError on an empty one.
handle_message(c, message) ==
    LET message_id == message[1]
        payload == Tail(message)
        Ends(how) == rm' = [rm EXCEPT ![c] = how]
    IN  IF message = <<>>
        THEN /\ Ends("IndexError")
             /\ UNCHANGED <<peer_choking, peer_interested, bitfield>>
        ELSE IF message_id \in {0, 1}
        THEN /\ peer_choking' = [peer_choking EXCEPT ![c] = (message_id = 0)]
             /\ Ends("returned")
             /\ UNCHANGED <<peer_interested, bitfield>>
        ELSE IF message_id \in {2, 3}
        THEN /\ peer_interested' =
                    [peer_interested EXCEPT ![c] = (message_id = 2)]
             /\ Ends("returned")
             /\ UNCHANGED <<peer_choking, bitfield>>
        ELSE IF message_id = 4 /\ payload = <<>>
        THEN /\ Ends("ValueError")
             /\ UNCHANGED <<peer_choking, peer_interested, bitfield>>
        ELSE IF message_id = 4
        THEN /\ bitfield' = [bitfield EXCEPT ![c] =
                    add_index(@, unpack(payload)).bitfield]
             /\ Ends("returned")
             /\ UNCHANGED <<peer_choking, peer_interested>>
        ELSE IF message_id = 5
        THEN /\ bitfield' = [bitfield EXCEPT ![c] = Bitfield(payload)]
             /\ Ends("returned")
             /\ UNCHANGED <<peer_choking, peer_interested>>
        ELSE /\ Ends("returned")
             /\ UNCHANGED <<peer_choking, peer_interested, bitfield>>

\* Peer.receive_message(), sock being what it hands to receive_all.  The
\* caller runs it: an exception of receive_all or of the decoding ends the
\* call, and a recv that never returns holds the caller.
receive_message_from(c, sock) ==
    LET lp == receive_all(sock, stream[c], LENGTH_PREFIX_SIZE)
        length_prefix == unpack(lp.data)
        m == receive_all(sock, lp.rest, length_prefix)
        Ends(how) == rm' = [rm EXCEPT ![c] = how]
    IN  /\ lp.raised # "blocked"
        /\ IF Receives(sock, LENGTH_PREFIX_SIZE)
           THEN Operated(c, "coordinator")
           ELSE UNCHANGED sock_user
        /\ IF lp.raised # NONE
           THEN /\ Ends(lp.raised)
                /\ stream' = [stream EXCEPT ![c] = lp.rest]
                /\ UNCHANGED <<peer_choking, peer_interested, bitfield>>
           ELSE IF Len(lp.data) # LENGTH_PREFIX_SIZE
           THEN /\ Ends("struct.error")
                /\ stream' = [stream EXCEPT ![c] = lp.rest]
                /\ UNCHANGED <<peer_choking, peer_interested, bitfield>>
           ELSE IF length_prefix = 0
           THEN /\ Ends("returned")
                /\ stream' = [stream EXCEPT ![c] = lp.rest]
                /\ UNCHANGED <<peer_choking, peer_interested, bitfield>>
           ELSE /\ m.raised # "blocked"
                /\ stream' = [stream EXCEPT ![c] = m.rest]
                /\ IF m.raised # NONE
                   THEN /\ Ends(m.raised)
                        /\ UNCHANGED <<peer_choking, peer_interested,
                                       bitfield>>
                   ELSE handle_message(c, m.data)
        /\ UNCHANGED <<started, alive, connected, socket, command_queue,
                       reply_queue, wpc, wcmd, wexc, remote, nsub, documented,
                       ndeq, nrep, join_at, got, mainVars, am_choking,
                       am_interested, reply, fnVars,
                   leaked>>

\* receive_message reading the socket of the channel: self.socket.socket.
receive_message_on_socket(c) == receive_message_from(c, socket[c])

\* Peer.receive_message(): self.socket is the peer's SocketThread.
receive_message(c) == receive_message_from(c, "SocketThread")

\* <length prefix><message ID><payload>, as a remote peer sends it.
Frame(message_id, payload) ==
    pack(1 + Len(payload), LENGTH_PREFIX_SIZE) \o <<message_id>> \o payload
\* The pieces a remote peer announces with have.
PieceIndexes == {0, 7}
\* What the remote end may send on the connection of the peer.
FrameScripts ==
    {Script(Frame(4, pack(i, 4)), "stall") : i \in PieceIndexes}
    \cup {Script(<<>>, "eof"), Script(pack(0, LENGTH_PREFIX_SIZE), "stall"),
          Script(Frame(1, <<>>), "eof"), Script(Frame(5, <<176>>), "error"),
          Script(Frame(2, <<>>), "stall"), Script(Frame(10, <<1>>), "stall")}

PeerInit ==
    /\ InitChannels
    /\ InitPeers
    /\ InitCalls
    /\ mpc = "off"
    /\ \E s \in FrameScripts :
          remote = [c \in Chans |-> IF c = ClientChan THEN s
                                    ELSE Script(<<>>, "eof")]

\* The coordinator holding the peer: it starts the thread, calls the methods
\* of peer.socket, polls for replies and calls receive_message.
Coordinator(c) ==
    \/ start(c)
    \/ MaySubmit(c) /\ connect(c, Address)
    \/ MaySubmit(c) /\ close(c)
    \/ MaySubmit(c) /\ send(c, SendData)
    \/ MaySubmit(c) /\ \E n \in 0..MaxReceive : receive(c, n)
    \/ MaySubmit(c) /\ \E w \in PrefixSizes : receive_with_prefix(c, w)
    \/ MaySubmit(c) /\ put_CLOSE(c)
    \/ get_reply_block_False(c)
    \/ receive_message(c)

PeerNext ==
    \/ Coordinator(ClientChan)
    \/ Worker(ClientChan)

PeerSpec == PeerInit /\ [][PeerNext]_vars

\* ------------------------------------------ receive_with_prefix alone
\* The prefix sizes _handle_RECEIVE_WITH_PREFIX unpacks.
Widths == {1, 2, 4, 8}
\* What the remote end may send: nothing, a prefix of each size that declares
\* one byte and that byte, a prefix that declares more than follows.
PrefixScripts ==
    {Script(d, t) : d \in {<<>>, <<2, 7>>} \cup
                          {pack(1, w) \o <<7>> : w \in Widths},
                    t \in Tails}

PrefixInit ==
    /\ InitChannels
    /\ InitPeers
    /\ InitCalls
    /\ mpc = "off"
    /\ \E s \in PrefixScripts :
          remote = [c \in Chans |-> IF c = ClientChan THEN s
                                    ELSE Script(<<>>, "eof")]

\* An owner that connects and receives prefixed messages, and the worker.
PrefixNext ==
    \/ start(ClientChan)
    \/ MaySubmit(ClientChan) /\ connect(ClientChan, Address)
    \/ MaySubmit(ClientChan) /\
          \E w \in Widths : receive_with_prefix(ClientChan, w)
    \/ get_reply(ClientChan)
    \/ run_while(ClientChan)
    \/ run_get(ClientChan)
    \/ run_Empty(ClientChan)
    \/ _handle_CONNECT(ClientChan)
    \/ _handle_RECEIVE_WITH_PREFIX(ClientChan)

PrefixSpec == PrefixInit /\ [][PrefixNext]_vars

\* ------------------------------------------- the handshake functions
\* n bytes: b, b + 1, ...
Bytes(b, n) == [i \in 1..n |-> (b + i - 1) % 256]
\* The byte strings given as info_hash and as peer_id.
HashStrings ==
    {Bytes(b, n) : b \in 1..MaxFill, n \in (20 - MaxOff)..(20 + MaxOff)}
\* The first bytes tried on a received handshake: as sent, none, one more.
FirstBytes == {0, Len(pstr), Len(pstr) + 1}

HandshakeInit ==
    /\ InitChannels
    /\ InitPeers
    /\ mpc = "off"
    /\ remote = [c \in Chans |-> Script(<<>>, "eof")]
    /\ bf_call = NoCall
    /\ hs_args \in [info_hash : HashStrings, peer_id : HashStrings]
    /\ hs_wire = [called |-> FALSE, raised |-> NONE, value |-> <<>>]
    /\ hs_buf = <<>>
    /\ hs_decoded = [called |-> FALSE, result |-> decode_handshake(<<>>)]

\* handshake = generate_handshake(info_hash, peer_id)
call_generate_handshake ==
    /\ ~hs_wire.called
    /\ hs_wire' =
          LET r == generate_handshake(hs_args.info_hash, hs_args.peer_id)
          IN  [called |-> TRUE, raised |-> r.raised, value |-> r.value]
    /\ UNCHANGED <<chanVars, got, mainVars, peerVars, bf_call, hs_args,
                   hs_buf, hs_decoded>>

\* decode_handshake(raw_handshake), on the first k bytes of a generated
\* handshake whose first byte is first.
call_decode_handshake ==
    /\ hs_wire.called
    /\ \E first \in FirstBytes, k \in 0..Len(hs_wire.value) :
          LET sent == IF hs_wire.value = <<>> THEN <<>>
                      ELSE <<first>> \o Tail(hs_wire.value)
          IN  /\ hs_buf' = Take(sent, k)
              /\ hs_decoded' = [called |-> TRUE,
                                result |-> decode_handshake(Take(sent, k))]
    /\ UNCHANGED <<chanVars, got, mainVars, peerVars, bf_call, hs_args,
                   hs_wire>>

HandshakeNext ==
    \/ call_generate_handshake
    \/ call_decode_handshake

HandshakeSpec == HandshakeInit /\ [][HandshakeNext]_vars

\* ------------------------------------------------ the Bitfield methods
\* The bytes a Bitfield is made from.
RawBytes == {0, 176, 255}
RawStrings == UNION {[1..n -> RawBytes] : n \in 0..MaxRawLen}
\* The indexes asked of has_index: up to the longest list.
HasIndexes == 0..(8 * MaxRawLen)

\* self.bitfield = Bitfield(payload)
call_Bitfield(p, raw) ==
    /\ bitfield' = [bitfield EXCEPT ![p] = Bitfield(raw)]
    /\ bf_call' = BitfieldCall("Bitfield", raw, 0, NONE, FALSE)
    /\ UNCHANGED <<chanVars, got, mainVars, am_choking, am_interested,
                   peer_choking, peer_interested, rm, reply, hs_args,
                   hs_wire, hs_buf, hs_decoded>>

\* self.bitfield.add_index(index)
call_add_index(p, index) ==
    /\ bitfield' = [bitfield EXCEPT ![p] = add_index(@, index).bitfield]
    /\ bf_call' = BitfieldCall("add_index", <<>>, index,
                               add_index(bitfield[p], index).raised, FALSE)
    /\ UNCHANGED <<chanVars, got, mainVars, am_choking, am_interested,
                   peer_choking, peer_interested, rm, reply, hs_args,
                   hs_wire, hs_buf, hs_decoded>>

\* self.bitfield.has_index(index)
call_has_index(p, index) ==
    /\ bf_call' = BitfieldCall("has_index", <<>>, index,
                               has_index(bitfield[p], index).raised,
                               has_index(bitfield[p], index).ret)
    /\ UNCHANGED <<chanVars, got, mainVars, peerVars, hs_args, hs_wire,
                   hs_buf, hs_decoded>>

BitfieldNext ==
    \/ \E raw \in RawStrings : call_Bitfield(ClientChan, raw)
    \/ \E index \in 0..MaxIndex : call_add_index(ClientChan, index)
    \/ \E index \in HasIndexes : call_has_index(ClientChan, index)

\* A Peer as Peer.__init__ leaves it: its Bitfield is empty.
BitfieldInit ==
    /\ InitChannels
    /\ InitPeers
    /\ InitCalls
    /\ mpc = "off"
    /\ remote = [c \in Chans |-> Script(<<>>, "eof")]

BitfieldSpec == BitfieldInit /\ [][BitfieldNext]_vars

\* ========================================================== the claims

\* The replies the worker has put so far, oldest first: those get_reply has
\* returned, then those still queued.
Replies(c) == got[c] \o reply_queue[c]

\* run() is between two commands, or has ended.
BetweenCommands(c) == wpc[c] # "handle"

\* C1: on a channel used as documented and whose socket could be created,
\* every command the worker has taken has exactly one reply once the worker
\* is done with it, and the replies are those of commands 1, 2, ... in the
\* order of submission.
C1_OneReplyPerCommandInOrder ==
    \A c \in Chans :
        documented[c] /\ wexc[c] # "socket.error" =>
            /\ BetweenCommands(c) => nrep[c] = ndeq[c]
            /\ Len(Replies(c)) = nrep[c]
            /\ \A i \in 1..Len(Replies(c)) : Replies(c)[i].of = i

\* C2: once Peer.connect() has put the connect command of a peer, exactly one
\* reply to it comes to the reply queue, Success or Error (unless no socket
\* could be created for it).
C2_ConnectIsReplied ==
    /\ \A p \in Chans :
          (nsub[p] >= 1) ~>
              \/ \E i \in 1..Len(reply_queue[p]) :
                    /\ reply_queue[p][i].of = 1
                    /\ reply_queue[p][i].status \in {SUCCESS, ERROR}
              \/ wexc[p] = "socket.error"
    /\ [](\A p \in Chans :
            Cardinality({i \in 1..Len(reply_queue[p]) :
                            reply_queue[p][i].of = 1}) <= 1)

\* C3: no socket.error leaves a command handler: run() is never ended by
\* one.
C3_NoSocketErrorEscapes ==
    \A c \in Chans : wpc[c] = "raised" => wexc[c] # "socket.error"

\* The worker of peer p will put no reply: it has ended, it was never
\* started, or its handler is in a recv that never returns.
NoReplyComing(p) ==
    \/ wpc[p] \in {"unstarted", "raised", "returned"}
    \/ /\ wpc[p] = "handle"
       /\ wcmd[p].command = RECEIVE
       /\ receive_all(socket[p], stream[p], wcmd[p].n).raised = "blocked"

\* The coordinator is in a blocking get_reply on the peer the for loop is at.
WaitsOnPeer == mpc \in {"send_reply", "receive_handshake"}

\* C4: the coordinator is never held by one peer: it is never in a blocking
\* call on a peer whose worker will put no reply.
C4_CoordinatorNeverHeld ==
    ~(WaitsOnPeer /\ reply_queue[mi] = <<>> /\ NoReplyComing(mi))

\* C5: no failure while servicing a peer ends the coordinator's loop.
C5_LoopNeverEnds == mpc # "raised"

\* receive_handshake() has ended for peer p, and not by the
\* HandshakeException of a reply that was not Success.
ReceivedWithSuccess(p) == rh[p] \notin {NONE, "HandshakeException"}

\* C7: when receive_handshake() has run for a peer that sends a well-formed
\* handshake and its receives were replied with Success, the peer has shaken
\* hands and the info_hash it declared is recorded.
C7_HandshakeCompletes ==
    \A p \in Chans :
        /\ ReceivedWithSuccess(p)
        /\ decode_handshake(remote[p].data).raised = NONE
        => /\ has_shook_hands[p]
           /\ peers_info_hash[p] # NONE
           /\ peers_info_hash[p] = decode_handshake(remote[p].data).info_hash

\* C8: when the bytes a peer sends do not decode as a handshake (the stream
\* closed early among the cases), receive_handshake() ends with
\* HandshakeException and with no other exception.
C8_OnlyHandshakeException ==
    \A p \in Chans :
        /\ rh[p] # NONE
        /\ decode_handshake(remote[p].data).raised # NONE
        => rh[p] = "HandshakeException"

\* C9: when the worker is done with the command close() made on a connected
\* channel (and a socket could be created while it was at it), the socket is
\* closed, the connected flag is cleared and one Success reply to that
\* command has been put.
C9_CloseReleasesSocket ==
    [][\A c \in Chans :
          /\ wpc[c] = "handle"
          /\ wcmd[c].op = "close"
          /\ connected[c]
          /\ wpc'[c] # "handle"
          /\ wexc'[c] # "socket.error"
          => /\ socket'[c] = "closed"
             /\ ~connected'[c]
             /\ reply_queue'[c] = Append(reply_queue[c],
                    SocketReply(SUCCESS, <<>>, <<>>, NONE, wcmd[c].id))]_vars

\* The handler in flight is in a recv that never returns.
HandlerBlocked(c) ==
    /\ wpc[c] = "handle"
    /\ \/ /\ wcmd[c].command = RECEIVE
          /\ receive_all(socket[c], stream[c], wcmd[c].n).raised = "blocked"
       \/ /\ wcmd[c].command = RECEIVE_WITH_PREFIX
          /\ receive_with_prefix_outcome(socket[c], stream[c],
                                         wcmd[c].n).raised = "blocked"

\* C10 as stated, the channel being closed when join() has cleared alive: the
\* worker starts no further command.
C10_NoCommandAfterJoin ==
    \A c \in Chans : join_at[c] >= 0 => ndeq[c] = join_at[c]

\* C10, amended: once join() has cleared alive, the worker starts at most one
\* further command (the one its get was already waiting for), and run() ends
\* (by returning, every command it took replied, or by an exception of the
\* handler in flight) unless the handler in flight never returns.
C10_JoinStopsLoop ==
    /\ [](\A c \in Chans : join_at[c] >= 0 => ndeq[c] <= join_at[c] + 1)
    /\ [](\A c \in Chans : wpc[c] = "returned" => nrep[c] = ndeq[c])
    /\ \A c \in Chans :
          (started[c] /\ ~alive[c]) ~>
              (wpc[c] \in {"returned", "raised"} \/ HandlerBlocked(c))

\* join() came while get was waiting, the worker took one more command, and
\* run() has returned.
C10_Witness ==
    \E c \in Chans :
        /\ join_at[c] >= 0
        /\ ndeq[c] = join_at[c] + 1
        /\ nrep[c] = ndeq[c]
        /\ wpc[c] = "returned"

\* C11: the OS socket of a channel is operated on by the worker of that
\* channel and by no other thread: the coordinator never does, and every step
\* that creates, connects, reads or closes the socket is a step of the
\* worker's handler.
C11_OnlyWorkerOperatesSocket ==
    /\ [](\A c \in Chans : sock_user[c] \in {NONE, "worker"})
    /\ [][\A c \in Chans :
            \/ socket'[c] # socket[c]
            \/ stream'[c] # stream[c]
            \/ sock_user'[c] # sock_user[c]
            => wpc[c] = "handle" /\ wpc'[c] # "handle"]_vars

\* The worker has read the open socket of a channel and the coordinator has
\* called receive_message() on its peer.
C11_Witness ==
    \E c \in Chans :
        /\ socket[c] = "open"
        /\ sock_user[c] = "worker"
        /\ stream[c] # remote[c]
        /\ rm[c] # NONE

\* The stream closes before prefix_size bytes and the bytes they declare have
\* come.
ClosesEarly(str, prefix_size) ==
    /\ str.tail = "eof"
    /\ \/ Len(str.data) < prefix_size
       \/ Len(str.data) < prefix_size + unpack(Take(str.data, prefix_size))

\* C12: a receive_with_prefix of 1, 2, 4 or 8 on a connected socket puts one
\* reply; a Success carries prefix_size bytes of prefix and as many bytes of
\* body as the prefix declares, big-endian, and they are the next bytes of
\* the stream; when the stream closes early the reply is the Error "Socket
\* closed prematurely".
C12_PrefixedReceive ==
    [][\A c \in Chans :
          /\ wpc[c] = "handle"
          /\ wcmd[c].command = RECEIVE_WITH_PREFIX
          /\ wcmd[c].n \in {1, 2, 4, 8}
          /\ socket[c] = "open"
          /\ wpc'[c] # "handle"
          => /\ wpc'[c] = "top"
             /\ Len(reply_queue'[c]) = Len(reply_queue[c]) + 1
             /\ LET r == reply_queue'[c][Len(reply_queue'[c])]
                IN  /\ r.status \in {SUCCESS, ERROR}
                    /\ r.status = SUCCESS =>
                          /\ Len(r.prefix) = wcmd[c].n
                          /\ Len(r.payload) = unpack(r.prefix)
                          /\ r.prefix \o r.payload =
                                Take(stream[c].data,
                                     wcmd[c].n + unpack(r.prefix))
                    /\ ClosesEarly(stream[c], wcmd[c].n) =>
                          /\ r.status = ERROR
                          /\ r.cause = "Socket closed prematurely"]_vars

\* A receive_with_prefix(8) was replied with the prefix and the body it
\* declares.
C12_Witness ==
    \E c \in Chans : \E i \in 1..Len(reply_queue[c]) :
        /\ reply_queue[c][i].status = SUCCESS
        /\ Len(reply_queue[c][i].prefix) = 8
        /\ reply_queue[c][i].payload = <<7>>

C14_HandshakeRoundTrip ==
    /\ Len(hs_args.info_hash) = 20
    /\ Len(hs_args.peer_id) = 20
    /\ hs_wire.called
    => /\ hs_wire.raised = NONE
       /\ Len(hs_wire.value) = 68
       /\ hs_decoded.called /\ hs_buf = hs_wire.value =>
             /\ hs_decoded.result.raised = NONE
             /\ hs_decoded.result.info_hash = hs_args.info_hash
             /\ hs_decoded.result.peer_id = hs_args.peer_id
             /\ hs_decoded.result.pstr = pstr
             /\ hs_decoded.result.pstrlen = 19
             /\ hs_decoded.result.reserved = <<0, 0, 0, 0, 0, 0, 0, 0>>

\* A handshake generated from a 20-byte info_hash and a different 20-byte
\* peer_id has been decoded whole.
C14_Witness ==
    /\ Len(hs_args.info_hash) = 20
    /\ Len(hs_args.peer_id) = 20
    /\ hs_args.info_hash # hs_args.peer_id
    /\ hs_wire.called
    /\ hs_decoded.called
    /\ hs_buf = hs_wire.value

\* C15: generate_handshake fails whenever info_hash or peer_id is not 20
\* bytes long.
C15_GenerateChecksBothLengths ==
    /\ hs_wire.called
    /\ Len(hs_args.info_hash) # 20 \/ Len(hs_args.peer_id) # 20
    => hs_wire.raised # NONE

\* C16: decode_handshake raises, and returns nothing, on every buffer shorter
\* than 49 + pstrlen bytes, pstrlen being its first byte, the empty buffer
\* among them; what it returns has whole fields.
C16_DecodeRejectsShortBuffers ==
    hs_decoded.called =>
        /\ hs_buf = <<>> => hs_decoded.result.raised # NONE
        /\ hs_buf # <<>> /\ Len(hs_buf) < 49 + hs_buf[1] =>
              hs_decoded.result.raised # NONE
        /\ hs_decoded.result.raised # NONE =>
              /\ hs_decoded.result.pstr = <<>>
              /\ hs_decoded.result.reserved = <<>>
              /\ hs_decoded.result.info_hash = <<>>
              /\ hs_decoded.result.peer_id = <<>>
        /\ hs_decoded.result.raised = NONE =>
              /\ Len(hs_decoded.result.pstr) = hs_decoded.result.pstrlen
              /\ Len(hs_decoded.result.reserved) = 8
              /\ Len(hs_decoded.result.info_hash) = 20
              /\ Len(hs_decoded.result.peer_id) = 20

\* decode_handshake has raised on a handshake cut inside its peer_id.
C16_Witness ==
    /\ hs_decoded.called
    /\ Len(hs_buf) > 49
    /\ Len(hs_buf) < 49 + hs_buf[1]
    /\ hs_decoded.result.raised # NONE

\* C17: has_index(index) never fails; it returns False for an index at or past
\* the length of the bitfield and the stored entry for one below it.
C17_HasIndexTotal ==
    bf_call.fn = "has_index" =>
        /\ bf_call.raised = NONE
        /\ bf_call.ret =
              IF bf_call.index < Len(bitfield[ClientChan])
              THEN bitfield[ClientChan][bf_call.index + 1]
              ELSE FALSE

\* C18: add_index(i) does not fail and leaves a bitfield of length
\* max(L, i + 1) whose entry i is True, whose other old entries are as they
\* were and whose new entries below i are False.
C18_AddIndexGrows ==
    [][LET i == bf_call'.index
           p == ClientChan
           L == Len(bitfield[p])
       IN  /\ bf_call'.fn = "add_index"
           /\ <<bf_call, bitfield>>' # <<bf_call, bitfield>>
           => /\ bf_call'.raised = NONE
              /\ Len(bitfield'[p]) = IF L > i + 1 THEN L ELSE i + 1
              /\ bitfield'[p][i + 1] = TRUE
              /\ \A k \in 1..L :
                    k # i + 1 => bitfield'[p][k] = bitfield[p][k]
              /\ \A k \in (L + 1)..i : bitfield'[p][k] = FALSE]_vars

\* add_index(5) on an empty bitfield: six entries, the last one True.
C18_Witness ==
    /\ bf_call.fn = "add_index"
    /\ bf_call.index = 5
    /\ bitfield[ClientChan] = <<FALSE, FALSE, FALSE, FALSE, FALSE, TRUE>>

\* C19: a Bitfield made from k bytes has 8 * k entries, and entry 8 * j + b is
\* bit 7 - b of byte j; made from no byte it is empty.
C19_BitfieldMsbFirst ==
    bf_call.fn = "Bitfield" =>
        /\ Len(bitfield[ClientChan]) = 8 * Len(bf_call.raw)
        /\ \A j \in 0..(Len(bf_call.raw) - 1) : \A b \in 0..7 :
              bitfield[ClientChan][8 * j + b + 1] =
                 ((bf_call.raw[j + 1] \div (2 ^ (7 - b))) % 2 = 1)
        /\ bf_call.raw = <<>> => bitfield[ClientChan] = <<>>

\* Bitfield(b"\xb0"): 1011 0000.
C19_Witness ==
    /\ bf_call.fn = "Bitfield"
    /\ bf_call.raw = <<176>>
    /\ bitfield[ClientChan] =
          <<TRUE, FALSE, TRUE, TRUE, FALSE, FALSE, FALSE, FALSE>>

\* C20: receive_message() on a connection whose next frame is have, with a
\* 4-byte piece index i, returns with entry i of the peer's bitfield True, the
\* missing entries below it False, the other entries and the four flags as
\* they were.
C20_HaveSetsEntry ==
    [][\A p \in Chans :
          /\ rm'[p] # rm[p]
          /\ socket[p] = "open"
          /\ \E i \in PieceIndexes :
                Take(stream[p].data, 9) = Frame(4, pack(i, 4))
          => LET i == unpack(SubSeq(stream[p].data, 6, 9))
                 L == Len(bitfield[p])
             IN  /\ rm'[p] = "returned"
                 /\ Len(bitfield'[p]) = IF L > i + 1 THEN L ELSE i + 1
                 /\ bitfield'[p][i + 1] = TRUE
                 /\ \A k \in 1..L :
                       k # i + 1 => bitfield'[p][k] = bitfield[p][k]
                 /\ \A k \in (L + 1)..i : bitfield'[p][k] = FALSE
                 /\ <<am_choking, am_interested, peer_choking,
                      peer_interested>>' =
                    <<am_choking, am_interested, peer_choking,
                      peer_interested>>]_vars

\* The frame at the head of a stream: whether all of it is there, its length
\* prefix, and its message id and payload when it has any.
NextFrame(str) ==
    LET whole == Len(str.data) >= LENGTH_PREFIX_SIZE
        length == unpack(Take(str.data, LENGTH_PREFIX_SIZE))
    IN  [complete |-> whole /\ Len(str.data) >= LENGTH_PREFIX_SIZE + length,
         length |-> IF whole THEN length ELSE 0,
         id |-> IF whole /\ length > 0 /\ Len(str.data) > LENGTH_PREFIX_SIZE
                THEN str.data[LENGTH_PREFIX_SIZE + 1] ELSE -1,
         payload |-> IF whole /\ length > 0
                     THEN SubSeq(str.data, LENGTH_PREFIX_SIZE + 2,
                                 LENGTH_PREFIX_SIZE + length)
                     ELSE <<>>]

\* This step is a call of receive_message() on the connected peer p that
\* has a whole frame to read.
ReceivesFrame(p) ==
    /\ rm'[p] # rm[p]
    /\ socket[p] = "open"
    /\ NextFrame(stream[p]).complete

\* This step leaves the four flags of peer p as they were.
FlagsUnchanged(p) ==
    /\ am_choking'[p] = am_choking[p]
    /\ am_interested'[p] = am_interested[p]
    /\ peer_choking'[p] = peer_choking[p]
    /\ peer_interested'[p] = peer_interested[p]

\* C21: receive_message() on a connection whose next frame is bitfield
\* returns with the peer's bitfield made anew from the payload, eight entries
\* a byte, most significant bit first, and with the four flags as they were.
C21_BitfieldReplaces ==
    [][\A p \in Chans :
          /\ ReceivesFrame(p)
          /\ NextFrame(stream[p]).id = 5
          => /\ rm'[p] = "returned"
             /\ Len(bitfield'[p]) = 8 * Len(NextFrame(stream[p]).payload)
             /\ \A j \in 0..(Len(NextFrame(stream[p]).payload) - 1) :
                   \A b \in 0..7 :
                      bitfield'[p][8 * j + b + 1] =
                         ((NextFrame(stream[p]).payload[j + 1]
                             \div (2 ^ (7 - b))) % 2 = 1)
             /\ FlagsUnchanged(p)]_vars

\* C22: receive_message() on a connection whose next frame is choke, unchoke,
\* interested or not interested returns with peer_choking True, peer_choking
\* False, peer_interested True or peer_interested False, the other flags and
\* the bitfield as they were; and no step ever changes am_choking or
\* am_interested.
C22_FlagMessages ==
    /\ [][\A p \in Chans :
            /\ ReceivesFrame(p)
            /\ NextFrame(stream[p]).id \in {0, 1, 2, 3}
            => /\ rm'[p] = "returned"
               /\ peer_choking'[p] =
                     IF NextFrame(stream[p]).id \in {0, 1}
                     THEN NextFrame(stream[p]).id = 0
                     ELSE peer_choking[p]
               /\ peer_interested'[p] =
                     IF NextFrame(stream[p]).id \in {2, 3}
                     THEN NextFrame(stream[p]).id = 2
                     ELSE peer_interested[p]
               /\ bitfield'[p] = bitfield[p]]_vars
    /\ [][am_choking' = am_choking /\ am_interested' = am_interested]_vars

\* C23: receive_message() on a connection whose next frame has length prefix
\* 0 takes it as a keep-alive: it returns having read the four bytes of the
\* prefix and no more, the four flags and the bitfield as they were.
C23_KeepAlive ==
    [][\A p \in Chans :
          /\ ReceivesFrame(p)
          /\ NextFrame(stream[p]).length = 0
          => /\ rm'[p] = "returned"
             /\ stream'[p].data = Drop(stream[p].data, LENGTH_PREFIX_SIZE)
             /\ FlagsUnchanged(p)
             /\ bitfield'[p] = bitfield[p]]_vars

\* C24: receive_message() on a connection whose next frame has id 6, 7, 8, 9
\* or an unknown one returns without an exception, leaves the connection
\* open, and leaves the four flags and the bitfield as they were.
C24_OtherMessagesIgnored ==
    [][\A p \in Chans :
          /\ ReceivesFrame(p)
          /\ NextFrame(stream[p]).id >= 6
          => /\ rm'[p] = "returned"
             /\ socket'[p] = "open"
             /\ connected'[p] = connected[p]
             /\ FlagsUnchanged(p)
             /\ bitfield'[p] = bitfield[p]]_vars

\* C25: a call of receive_message() puts exactly one command on the peer's
\* command queue, a receive_with_prefix of 4, and reads the connection in no
\* other way.
C25_OneFramePerCall ==
    [][\A p \in Chans :
          rm'[p] # rm[p] =>
             /\ Len(command_queue'[p]) = Len(command_queue[p]) + 1
             /\ command_queue'[p][Len(command_queue'[p])].command =
                   RECEIVE_WITH_PREFIX
             /\ command_queue'[p][Len(command_queue'[p])].n =
                   LENGTH_PREFIX_SIZE
             /\ stream'[p] = stream[p]
             /\ sock_user'[p] = sock_user[p]]_vars

\* The commands of channel p that the worker has yet to finish.
Pending(p) ==
    {command_queue[p][k] : k \in 1..Len(command_queue[p])}
    \cup (IF wcmd[p] = NoCommand THEN {} ELSE {wcmd[p]})

\* This step puts a command made by the public method op on channel p.
Issues(p, op) ==
    /\ Len(command_queue'[p]) = Len(command_queue[p]) + 1
    /\ command_queue'[p][Len(command_queue'[p])].op = op

\* This step takes from the reply queue of p the Success reply to the
\* command submitted last.
TakesSuccessOfLast(p) ==
    /\ reply_queue[p] # <<>>
    /\ reply_queue'[p] = Tail(reply_queue[p])
    /\ Head(reply_queue[p]).status = SUCCESS
    /\ Head(reply_queue[p]).of = nsub[p]

\* C26: in main(), the commands of a peer are its connect, then the send of
\* the handshake, then the receive of receive_handshake, each at most once:
\* the send is issued in the step that takes the Success reply to the
\* connect, and receive_handshake issues its receive in the step that takes
\* the Success reply to the send.
C26_HandshakeOrder ==
    /\ [](\A p \in Chans : \A cmd \in Pending(p) :
             /\ cmd.op \in {"connect", "send", "receive"}
             /\ cmd.op = "connect" <=> cmd.id = 1
             /\ cmd.op = "send" <=> cmd.id = 2
             /\ cmd.op = "receive" <=> cmd.id = 3)
    /\ [][\A p \in Chans :
            /\ Issues(p, "send") => nsub[p] = 1 /\ TakesSuccessOfLast(p)
            /\ Issues(p, "receive") => nsub[p] = 2 /\ TakesSuccessOfLast(p)
         ]_vars

\* The handshake was sent to a peer and receive_handshake() has ended.
C26_Witness ==
    \E p \in Chans : nsub[p] = 3 /\ rh[p] # NONE

\* This step is the end of _handle_RECEIVE on the connected channel c.
ReceiveEnds(c) ==
    /\ wpc[c] = "handle"
    /\ wcmd[c].command = RECEIVE
    /\ wpc'[c] # "handle"
    /\ socket[c] = "open"

\* C27: on a connected channel the handler of receive(n) ends by putting one
\* reply, and only when n bytes have come or the stream is over.  The reply
\* is the Success of the first n bytes when n bytes have come; it is a
\* Success of fewer than n bytes exactly when the remote end closed the
\* stream before n bytes; a Success never holds more than n bytes.
C27_ReceiveExactly ==
    [][\A c \in Chans :
          ReceiveEnds(c) =>
             LET n == wcmd[c].n
                 there == Len(stream[c].data)
                 closed_early == there < n /\ stream[c].tail = "eof"
                 r == reply_queue'[c][Len(reply_queue'[c])]
             IN  /\ reply_queue'[c] = Append(reply_queue[c], r)
                 /\ r.of = wcmd[c].id
                 /\ there >= n \/ stream[c].tail \in {"eof", "error"}
                 /\ r.status = SUCCESS => Len(r.payload) <= n
                 /\ there >= n =>
                       r.status = SUCCESS /\ r.payload = Take(stream[c].data, n)
                 /\ closed_early =>
                       r.status = SUCCESS /\ r.payload = stream[c].data
                 /\ r.status = SUCCESS /\ Len(r.payload) < n => closed_early
      ]_vars

\* The remote end sent one byte and closed, and the receive that followed
\* the connect was answered with a Success of that byte.
C27_Witness ==
    /\ socket[ClientChan] = "open"
    /\ remote[ClientChan] = Script(<<0>>, "eof")
    /\ stream[ClientChan] = Script(<<>>, "eof")
    /\ \E k \in 1..Len(reply_queue[ClientChan]) :
          /\ reply_queue[ClientChan][k].status = SUCCESS
          /\ reply_queue[ClientChan][k].of = 2
          /\ reply_queue[ClientChan][k].prefix = <<>>
          /\ reply_queue[ClientChan][k].payload = <<0>>
    /\ wcmd[ClientChan] = NoCommand
    /\ ndeq[ClientChan] = 2

\* C28: the worker's loop is not ended by an exception of a command that a
\* public method made (an exception of socket.socket() itself apart, which no
\* command decides).
C28_OnlyJoinStopsWorker ==
    \A c \in Chans :
       wpc[c] = "raised" =>
          wcmd[c].op = "put" \/ wexc[c] = "socket.error"

\* C29: while the worker runs, is_connected() is true only if the channel's
\* socket is connected: its last connect succeeded and it was not closed.
C29_ConnectedMeansOpen ==
    \A c \in Chans :
       is_connected(c) /\ wpc[c] # "raised" => socket[c] = "open"

\* C30: no open socket is ever out of the channel's reach: the socket of an
\* earlier connect is closed by the time a later connect has made a new one.
C30_OneSocketPerChannel ==
    \A c \in Chans : leaked[c] = 0

\* This step is a blocking get_reply of main() or of receive_handshake()
\* returning a reply of peer p.
BlockingGet(p) ==
    /\ mi = p
    /\ mpc \in {"send_reply", "receive_handshake"}
    /\ Len(reply_queue'[p]) < Len(reply_queue[p])

\* C31: when main() sends the handshake or receive_handshake() issues a
\* receive, every earlier command of the peer has been answered and its
\* reply taken, so the reply queue is empty once the command is issued; and
\* the reply a blocking get_reply returns is the reply to the command issued
\* last.
C31_NoStaleReply ==
    [][\A p \in Chans :
          /\ Issues(p, "send") \/ Issues(p, "receive") =>
                /\ reply_queue'[p] = <<>>
                /\ Pending(p) = {}
                /\ nrep[p] = nsub[p]
          /\ BlockingGet(p) =>
                /\ reply_queue[p] # <<>>
                /\ reply_queue'[p] = Tail(reply_queue[p])
                /\ Head(reply_queue[p]).of = nsub[p]
                /\ Len(reply_queue[p]) = 1
      ]_vars

\* The blocking get_reply of receive_handshake() is about to return the reply
\* to its receive, the third command of the peer.
C31_Witness ==
    /\ mpc = "receive_handshake"
    /\ reply_queue[mi] # <<>>
    /\ Head(reply_queue[mi]).of = 3
    /\ Head(reply_queue[mi]).status = SUCCESS

=============================================================================
